---- MODULE Spec2Model ----
(***************************************************************************)
(* Model of vislum-dxc's native bridge: the C entry points of shim.cpp and *)
(* the C++ classes of wrapper.h, with conv.h's diagnostic extraction.      *)
(* The two variants are modelled side by side; `impl` selects which one a  *)
(* behaviour exercises.                                                    *)
(***************************************************************************)
EXTENDS Integers, Sequences, FiniteSets, TLC

VARIABLES
  impl,      \* "shim" (shim.cpp) or "wrapper" (wrapper.h)
  faulted,   \* the process has trapped (call through a null pointer)
  bridge,    \* the Include Bridge under test: m_refCount and delete count
  last,      \* the last AddRef/Release call: op, count before, return value, deleted
  nCalls,    \* number of AddRef/Release calls made so far
  dl,        \* the dynamic library handle: open flag and dlclose count
  loader,    \* the Loader object
  loaderOut, \* the caller's Loader pointer (the out-parameter of open)
  comp,      \* the Compiler object
  compOut,   \* the caller's Compiler pointer (the out-parameter of create)
  res,       \* the Compilation Result object
  ev,        \* the last completed operation with its inputs and outputs
  cnt,       \* how many opens, creates and compiles have run, and how many
             \* compiles on the current Compiler returned a failed result
  obj,       \* an include handler shared by several threads
  tstate,    \* per thread: its position in an AddRef/Release on obj
  job,       \* per thread: its position in a compile call of its own
  dxcResult  \* the engine's result pointer of each compile call in progress

refVars == <<bridge, last, nCalls>>
lifeVars == <<dl, loader, loaderOut, comp, compOut, res, ev, cnt>>
concVars == <<obj, tstate, job, dxcResult>>
vars == <<impl, faulted, bridge, last, nCalls,
          dl, loader, loaderOut, comp, compOut, res, ev, cnt,
          obj, tstate, job, dxcResult>>

Impls == {"shim", "wrapper"}

\* Bound on the length of an AddRef/Release call sequence.
MaxCalls == 10

(***************************************************************************)
(* Include Bridge reference counting.  A count is kept as the 32-bit       *)
(* two's-complement reading of the field; the bounds keep it far from the  *)
(* upper wrap, and the ULONG value 2^32-1 reads as -1.                     *)
(***************************************************************************)

\* shim.cpp IncludeHandler::AddRef: __sync_add_and_fetch(&m_refCount, 1)
IncludeHandler_AddRef(c) ==
  [count |-> c + 1, ret |-> c + 1, deleted |-> FALSE]

\* shim.cpp IncludeHandler::Release: sub-and-fetch, delete on new value 0
IncludeHandler_Release(c) ==
  LET refCount == c - 1 IN
  [count |-> c - 1, ret |-> refCount, deleted |-> (refCount = 0)]

\* wrapper.h DxcShimIncludeHandler::AddRef: return m_refCount++
DxcShimIncludeHandler_AddRef(c) ==
  [count |-> c + 1, ret |-> c, deleted |-> FALSE]

\* wrapper.h DxcShimIncludeHandler::Release: refCount = m_refCount--,
\* delete when the value read BEFORE the decrement is 0
DxcShimIncludeHandler_Release(c) ==
  LET refCount == c IN
  [count |-> c - 1, ret |-> refCount, deleted |-> (refCount = 0)]

\* Initial m_refCount of both classes.
InitialRefCount == 1

NoCall == [op |-> "none", before |-> InitialRefCount, ret |-> 0, deleted |-> FALSE]

ApplyRef(op, r) ==
  /\ bridge' = [m_refCount |-> r.count,
                deletes |-> bridge.deletes + (IF r.deleted THEN 1 ELSE 0)]
  /\ last' = [op |-> op, before |-> bridge.m_refCount, ret |-> r.ret,
              deleted |-> r.deleted]
  /\ nCalls' = nCalls + 1
  /\ UNCHANGED <<impl, faulted>>
  /\ UNCHANGED <<lifeVars, concVars>>

\* A caller may only call a method of an object that has not been deleted.
CanCall == bridge.deletes = 0 /\ nCalls < MaxCalls /\ ~faulted

ShimAddRef ==
  /\ impl = "shim" /\ CanCall
  /\ ApplyRef("AddRef", IncludeHandler_AddRef(bridge.m_refCount))

ShimRelease ==
  /\ impl = "shim" /\ CanCall
  /\ ApplyRef("Release", IncludeHandler_Release(bridge.m_refCount))

WrapperAddRef ==
  /\ impl = "wrapper" /\ CanCall
  /\ ApplyRef("AddRef", DxcShimIncludeHandler_AddRef(bridge.m_refCount))

WrapperRelease ==
  /\ impl = "wrapper" /\ CanCall
  /\ ApplyRef("Release", DxcShimIncludeHandler_Release(bridge.m_refCount))

(***************************************************************************)
(* Include Bridge: QueryInterface and LoadSource.                          *)
(***************************************************************************)

InterfaceIds == {"IUnknown", "IDxcIncludeHandler", "IDxcBlob"}

SupportedIds == {"IUnknown", "IDxcIncludeHandler"}

\* A variant that hands out the pointer without taking a reference.
IncludeHandler_QueryInterface_noAddRef(riid, c) ==
  IF riid \in SupportedIds
  THEN [hr |-> "S_OK", out |-> "this", count |-> c]
  ELSE [hr |-> "E_NOINTERFACE", out |-> "null", count |-> c]

\* shim.cpp IncludeHandler::QueryInterface
IncludeHandler_QueryInterface(riid, c) ==
  IF riid \in SupportedIds
  THEN [hr |-> "S_OK", out |-> "this", count |-> IncludeHandler_AddRef(c).count]
  ELSE [hr |-> "E_NOINTERFACE", out |-> "null", count |-> c]

\* wrapper.h DxcShimIncludeHandler::QueryInterface
DxcShimIncludeHandler_QueryInterface(riid, c) ==
  IF riid \in SupportedIds
  THEN [hr |-> "S_OK", out |-> "this",
        count |-> DxcShimIncludeHandler_AddRef(c).count]
  ELSE [hr |-> "E_NOINTERFACE", out |-> "null", count |-> c]

ApplyQueryInterface(riid, r) ==
  /\ bridge' = [bridge EXCEPT !.m_refCount = r.count]
  /\ last' = [op |-> "QueryInterface", before |-> bridge.m_refCount, ret |-> 0,
              deleted |-> FALSE, riid |-> riid, hr |-> r.hr, out |-> r.out]
  /\ nCalls' = nCalls + 1
  /\ UNCHANGED <<impl, faulted>>
  /\ UNCHANGED <<lifeVars, concVars>>

ShimQueryInterface ==
  /\ impl = "shim" /\ CanCall
  /\ \E riid \in InterfaceIds :
       ApplyQueryInterface(riid, IncludeHandler_QueryInterface(riid, bridge.m_refCount))

WrapperQueryInterface ==
  /\ impl = "wrapper" /\ CanCall
  /\ \E riid \in InterfaceIds :
       ApplyQueryInterface(riid,
                           DxcShimIncludeHandler_QueryInterface(riid, bridge.m_refCount))

\* Code points an include path is made of: 'a' and U+00E9.
PathCodePoints == {97, 233}

\* Bound on the length of an include path.
MaxPathLen == 2

Paths == UNION {[1..n -> PathCodePoints] : n \in 1..MaxPathLen}

\* What the user callback returns: nothing, or the include's source text.
CallbackReturns == {"null", "src"}

\* The bytes of the text the callback returns.
CallbackText == <<102, 40, 41>>

\* What IDxcUtils::CreateBlob returns.
CreateBlobResults == {"S_OK", "E_OUTOFMEMORY", "E_INVALIDARG"}

\* The opaque context the handler was constructed with (m_userData).
UserData == "userData"

\* shim.cpp IncludeHandler::LoadSource: both parameters are ignored.
IncludeHandler_LoadSource(filename, cbRet, createHr) ==
  [hr |-> "E_NOTIMPL", calls |-> <<>>, created |-> FALSE, written |-> FALSE,
   blob |-> [bytes |-> <<>>, codePage |-> "none"]]

\* wrapper.h DxcShimIncludeHandler::LoadSource.  filename: the path after
\* utf16_to_utf8; cbRet: what m_userCallback returns; createHr: what
\* m_utils->CreateBlob returns.
DxcShimIncludeHandler_LoadSource(filename, cbRet, createHr) ==
  LET calls == <<[path |-> filename, context |-> UserData]>> IN
  IF cbRet = "null"
  THEN [hr |-> "E_FAIL", calls |-> calls, created |-> FALSE, written |-> FALSE,
        blob |-> [bytes |-> <<>>, codePage |-> "none"]]
  ELSE IF createHr # "S_OK"
  THEN [hr |-> createHr, calls |-> calls, created |-> FALSE, written |-> FALSE,
        blob |-> [bytes |-> <<>>, codePage |-> "none"]]
  ELSE [hr |-> "S_OK", calls |-> calls, created |-> TRUE, written |-> TRUE,
        blob |-> [bytes |-> CallbackText, codePage |-> "CP_UTF8"]]

ApplyLoadSource(path, cbRet, createHr, r) ==
  /\ last' = [op |-> "LoadSource", before |-> bridge.m_refCount, ret |-> 0,
              deleted |-> FALSE, path |-> path, cbRet |-> cbRet,
              createHr |-> createHr, hr |-> r.hr, calls |-> r.calls,
              created |-> r.created, written |-> r.written, blob |-> r.blob]
  /\ nCalls' = nCalls + 1
  /\ UNCHANGED <<impl, faulted, bridge>>
  /\ UNCHANGED <<lifeVars, concVars>>

InitRefVars ==
  /\ bridge = [m_refCount |-> InitialRefCount, deletes |-> 0]
  /\ last = NoCall
  /\ nCalls = 0

(***************************************************************************)
(* Status codes.                                                           *)
(***************************************************************************)

\* shim.cpp enum Status
DXC_SHIM_STATUS_OK == 0
DXC_SHIM_STATUS_FAILED_TO_OPEN_LIBRARY == 1
DXC_SHIM_STATUS_FAILED_TO_CREATE_INSTANCE == 2
DXC_SHIM_STATUS_FAILED_TO_CREATE_COMPILER == 3
DXC_SHIM_STATUS_FAILED_TO_CREATE_UTILS == 4

\* wrapper.h enum class DxcShimStatus
DxcShimStatus_Ok == 0
DxcShimStatus_OpenLibraryError == 2
DxcShimStatus_GetCreateInstance2SymbolError == 2
DxcShimStatus_GetDxcCompilerInstanceError == 3
DxcShimStatus_GetDxcUtilsInstanceError == 4

\* The steps of open and create, and the enumerator each variant's
\* enumeration provides for a failure of that step ("none": no failure).
Steps == {"none", "dlopen", "dlsym", "compiler", "utils"}

StatusOf(i, step) ==
  IF i = "shim"
  THEN CASE step = "none"     -> DXC_SHIM_STATUS_OK
         [] step = "dlopen"   -> DXC_SHIM_STATUS_FAILED_TO_OPEN_LIBRARY
         [] step = "dlsym"    -> DXC_SHIM_STATUS_FAILED_TO_CREATE_INSTANCE
         [] step = "compiler" -> DXC_SHIM_STATUS_FAILED_TO_CREATE_COMPILER
         [] step = "utils"    -> DXC_SHIM_STATUS_FAILED_TO_CREATE_UTILS
  ELSE CASE step = "none"     -> DxcShimStatus_Ok
         [] step = "dlopen"   -> DxcShimStatus_OpenLibraryError
         [] step = "dlsym"    -> DxcShimStatus_GetCreateInstance2SymbolError
         [] step = "compiler" -> DxcShimStatus_GetDxcCompilerInstanceError
         [] step = "utils"    -> DxcShimStatus_GetDxcUtilsInstanceError

(***************************************************************************)
(* Loader.                                                                 *)
(***************************************************************************)

\* Bounds on the number of open and create calls of a behaviour.
MaxOpens == 2
MaxCreates == 2

NoLoader == [state |-> "none", handle |-> "null", createInstance2 |-> "null"]

\* A variant that allocates the Loader and stores it through the
\* out-parameter before looking at dlopen's result.
dxc_shim_loader_open_allocFirst(dlopenOk, dlsymOk) ==
  [status |-> (IF dlopenOk THEN DXC_SHIM_STATUS_OK
               ELSE DXC_SHIM_STATUS_FAILED_TO_OPEN_LIBRARY),
   allocated |-> TRUE, written |-> TRUE, libOpen |-> dlopenOk, dlcloses |-> 0,
   createInstance2 |-> (IF dlopenOk /\ dlsymOk THEN "proc" ELSE "null"),
   step |-> (IF ~dlopenOk THEN "dlopen" ELSE IF dlsymOk THEN "none" ELSE "dlsym")]

\* shim.cpp dxc_shim_loader_open.  dlopenOk/dlsymOk: whether dlopen and
\* dlsym return non-NULL.  Result: the status, whether a Loader was
\* allocated and stored through the out-parameter, whether the library is
\* left open, dlclose calls made, and the step that failed.
dxc_shim_loader_open(dlopenOk, dlsymOk) ==
  IF ~dlopenOk
  THEN [status |-> DXC_SHIM_STATUS_FAILED_TO_OPEN_LIBRARY, allocated |-> FALSE,
        written |-> FALSE, libOpen |-> FALSE, dlcloses |-> 0,
        createInstance2 |-> "null", step |-> "dlopen"]
  ELSE [status |-> DXC_SHIM_STATUS_OK, allocated |-> TRUE,
        written |-> TRUE, libOpen |-> TRUE, dlcloses |-> 0,
        createInstance2 |-> (IF dlsymOk THEN "proc" ELSE "null"),
        step |-> (IF dlsymOk THEN "none" ELSE "dlsym")]

\* wrapper.h DxcShimLoader::DxcShimLoader.  A throwing constructor leaves
\* no object; status is the thrown DxcShimStatus (Ok: nothing thrown).
DxcShimLoader_ctor(dlopenOk, dlsymOk) ==
  IF ~dlopenOk
  THEN [status |-> DxcShimStatus_OpenLibraryError, allocated |-> FALSE,
        written |-> FALSE, libOpen |-> FALSE, dlcloses |-> 0,
        createInstance2 |-> "null", step |-> "dlopen"]
  ELSE IF ~dlsymOk
  THEN [status |-> DxcShimStatus_GetCreateInstance2SymbolError,
        allocated |-> FALSE, written |-> FALSE, libOpen |-> FALSE,
        dlcloses |-> 1, createInstance2 |-> "null", step |-> "dlsym"]
  ELSE [status |-> DxcShimStatus_Ok, allocated |-> TRUE,
        written |-> TRUE, libOpen |-> TRUE, dlcloses |-> 0,
        createInstance2 |-> "proc", step |-> "none"]

\* The caller passes the address of a null pointer; open stores a Loader
\* through it only where the code assigns it.
ApplyOpen(r, dlopenOk, dlsymOk) ==
  /\ dl' = [open |-> r.libOpen,
            opened |-> dlopenOk,
            unloads |-> r.dlcloses]
  /\ loader' = IF r.allocated
               THEN [state |-> "live", handle |-> "h",
                     createInstance2 |-> r.createInstance2]
               ELSE NoLoader
  /\ loaderOut' = IF r.written THEN "loader" ELSE "null"
  /\ ev' = [op |-> "open", dlopenOk |-> dlopenOk, dlsymOk |-> dlsymOk,
            step |-> r.step, status |-> r.status,
            allocated |-> r.allocated, written |-> r.written]
  /\ cnt' = [cnt EXCEPT !.opens = @ + 1]
  /\ UNCHANGED <<impl, faulted, comp, compOut, res>>
  /\ UNCHANGED <<refVars, concVars>>

CanOpen == ~faulted /\ loader.state # "live" /\ cnt.opens < MaxOpens

ShimLoaderOpen ==
  /\ impl = "shim" /\ CanOpen
  /\ \E dlopenOk \in BOOLEAN, dlsymOk \in BOOLEAN :
       ApplyOpen(dxc_shim_loader_open(dlopenOk, dlsymOk), dlopenOk, dlsymOk)

WrapperLoaderCtor ==
  /\ impl = "wrapper" /\ CanOpen
  /\ \E dlopenOk \in BOOLEAN, dlsymOk \in BOOLEAN :
       ApplyOpen(DxcShimLoader_ctor(dlopenOk, dlsymOk), dlopenOk, dlsymOk)

\* shim.cpp dxc_shim_loader_close / wrapper.h DxcShimLoader::~DxcShimLoader:
\* dlclose(handle), and the Loader object is gone.
LoaderClose(i) ==
  /\ impl = i /\ ~faulted
  /\ loaderOut = "loader" /\ loader.state = "live"
  /\ dl' = [dl EXCEPT !.open = FALSE, !.unloads = @ + 1]
  /\ loader' = [loader EXCEPT !.state = "freed"]
  /\ ev' = [op |-> "close"]
  /\ UNCHANGED <<impl, faulted, loaderOut, comp, compOut, res, cnt>>
  /\ UNCHANGED <<refVars, concVars>>

ShimLoaderClose == LoaderClose("shim")

WrapperLoaderDtor == LoaderClose("wrapper")

(***************************************************************************)
(* Compiler Handle.                                                        *)
(***************************************************************************)

\* gen: which open produced the Loader the Compiler was created from.
NoCompiler == [state |-> "none", compiler |-> "null", utils |-> "null", gen |-> 0]

\* shim.cpp dxc_shim_create_compiler.  createInstance2: the Loader's entry
\* point; engOk/utilOk: whether the two createInstance2 calls succeed.
\* `*compiler = new Compiler()` comes first, so the out-parameter is
\* always written; `delete *compiler` runs the CComPtr destructors and
\* leaves the out-parameter pointing at the freed object.
dxc_shim_create_compiler(createInstance2, engOk, utilOk) ==
  IF createInstance2 = "null"
  THEN [fault |-> TRUE, status |-> DXC_SHIM_STATUS_OK, step |-> "none",
        obj |-> [state |-> "live", compiler |-> "null", utils |-> "null"],
        written |-> TRUE,
        acq |-> [engine |-> 0, utils |-> 0], rel |-> [engine |-> 0, utils |-> 0]]
  ELSE IF ~engOk
  THEN [fault |-> FALSE, status |-> DXC_SHIM_STATUS_FAILED_TO_CREATE_COMPILER,
        step |-> "compiler",
        obj |-> [state |-> "freed", compiler |-> "null", utils |-> "null"],
        written |-> TRUE,
        acq |-> [engine |-> 0, utils |-> 0], rel |-> [engine |-> 0, utils |-> 0]]
  ELSE IF ~utilOk
  THEN [fault |-> FALSE, status |-> DXC_SHIM_STATUS_FAILED_TO_CREATE_UTILS,
        step |-> "utils",
        obj |-> [state |-> "freed", compiler |-> "null", utils |-> "null"],
        written |-> TRUE,
        acq |-> [engine |-> 1, utils |-> 0], rel |-> [engine |-> 1, utils |-> 0]]
  ELSE [fault |-> FALSE, status |-> DXC_SHIM_STATUS_OK, step |-> "none",
        obj |-> [state |-> "live", compiler |-> "engine", utils |-> "utils"],
        written |-> TRUE,
        acq |-> [engine |-> 1, utils |-> 1], rel |-> [engine |-> 0, utils |-> 0]]

\* wrapper.h DxcShimCompiler::DxcShimCompiler.  A throw from the
\* constructor destroys the members already constructed (m_compiler's
\* CComPtr releases the engine) and leaves no object.
DxcShimCompiler_ctor(createInstance2, engOk, utilOk) ==
  IF createInstance2 = "null"
  THEN [fault |-> TRUE, status |-> DxcShimStatus_Ok, step |-> "none",
        obj |-> NoCompiler, written |-> FALSE,
        acq |-> [engine |-> 0, utils |-> 0], rel |-> [engine |-> 0, utils |-> 0]]
  ELSE IF ~engOk
  THEN [fault |-> FALSE, status |-> DxcShimStatus_GetDxcCompilerInstanceError,
        step |-> "compiler", obj |-> NoCompiler, written |-> FALSE,
        acq |-> [engine |-> 0, utils |-> 0], rel |-> [engine |-> 0, utils |-> 0]]
  ELSE IF ~utilOk
  THEN [fault |-> FALSE, status |-> DxcShimStatus_GetDxcUtilsInstanceError,
        step |-> "utils", obj |-> NoCompiler, written |-> FALSE,
        acq |-> [engine |-> 1, utils |-> 0], rel |-> [engine |-> 1, utils |-> 0]]
  ELSE [fault |-> FALSE, status |-> DxcShimStatus_Ok, step |-> "none",
        obj |-> [state |-> "live", compiler |-> "engine", utils |-> "utils"],
        written |-> TRUE,
        acq |-> [engine |-> 1, utils |-> 1], rel |-> [engine |-> 0, utils |-> 0]]

ApplyCreate(r, engOk, utilOk) ==
  /\ comp' = [state |-> r.obj.state, compiler |-> r.obj.compiler,
              utils |-> r.obj.utils, gen |-> cnt.opens]
  /\ compOut' = IF r.written THEN "obj" ELSE "null"
  /\ faulted' = r.fault
  /\ ev' = [op |-> "create", engOk |-> engOk, utilOk |-> utilOk,
            fault |-> r.fault, step |-> r.step, status |-> r.status,
            written |-> r.written, acq |-> r.acq, rel |-> r.rel]
  /\ cnt' = [cnt EXCEPT !.creates = @ + 1, !.failed = 0]
  /\ UNCHANGED <<impl, dl, loader, loaderOut, res>>
  /\ UNCHANGED <<refVars, concVars>>

\* create is called with a Loader that open returned and close has not
\* freed.  The caller holds one Compiler at a time; one whose Loader has
\* been closed is abandoned.
CanCreate ==
  /\ ~faulted /\ loaderOut = "loader" /\ loader.state = "live"
  /\ (comp.state # "live" \/ comp.gen # cnt.opens)
  /\ cnt.creates < MaxCreates

ShimCreateCompiler ==
  /\ impl = "shim" /\ CanCreate
  /\ \E engOk \in BOOLEAN, utilOk \in BOOLEAN :
       ApplyCreate(dxc_shim_create_compiler(loader.createInstance2, engOk, utilOk),
                   engOk, utilOk)

WrapperCompilerCtor ==
  /\ impl = "wrapper" /\ CanCreate
  /\ \E engOk \in BOOLEAN, utilOk \in BOOLEAN :
       ApplyCreate(DxcShimCompiler_ctor(loader.createInstance2, engOk, utilOk),
                   engOk, utilOk)

\* wrapper.h DxcShimCompiler's implicit destructor: the two CComPtr members
\* release their objects.  (shim.cpp has no operation that frees a Compiler.)
WrapperCompilerDtor ==
  /\ impl = "wrapper" /\ ~faulted
  /\ compOut = "obj" /\ comp.state = "live"
  /\ loader.state = "live" /\ comp.gen = cnt.opens
  /\ comp' = [comp EXCEPT !.state = "freed", !.compiler = "null", !.utils = "null"]
  /\ ev' = [op |-> "compiler_dtor"]
  /\ UNCHANGED <<impl, faulted, dl, loader, loaderOut, compOut, res, cnt>>
  /\ UNCHANGED <<refVars, concVars>>

(***************************************************************************)
(* The native engine as seen from the bridge: what Compile, GetStatus,     *)
(* GetErrorBuffer, GetEncoding and GetResult hand back.                    *)
(***************************************************************************)

\* Bounds: length of a diagnostic text, and references the engine takes on
\* the include handler during one Compile.
MaxTextLen == 2
MaxEngineRefs == 1
MaxCompiles == 2

\* Code points a diagnostic text is made of: 'A' and U+00E9.
CodePoints == {65, 233}

Texts == UNION {[1..n -> CodePoints] : n \in 0..MaxTextLen}

\* UTF-8 bytes of one code point below U+0800.
Utf8Of(cp) ==
  IF cp < 128 THEN <<cp>> ELSE <<192 + (cp \div 64), 128 + (cp % 64)>>

\* UTF-16LE bytes of one code point of the basic plane.
Utf16Of(cp) == <<cp % 256, cp \div 256>>

RECURSIVE EncodeText(_, _)
EncodeText(text, codePage) ==
  IF text = <<>> THEN <<>>
  ELSE (IF codePage = "CP_UTF8" THEN Utf8Of(Head(text)) ELSE Utf16Of(Head(text)))
       \o EncodeText(Tail(text), codePage)

Sources == {"vs_ok", "vs_ok2", "bad"}

Valid(src) == src \in {"vs_ok", "vs_ok2"}

\* The bytecode the engine produces for a valid source.
Bytecode(src) == IF src = "vs_ok" THEN <<7>> ELSE <<7, 9>>

NoBlob == [blobNull |-> TRUE, encOk |-> TRUE, codePage |-> "CP_UTF8", bytes |-> <<>>]

\* What the engine does with a source: a valid one compiles; an invalid one
\* makes Compile itself fail (no result object), or makes the result's
\* status a failure with a diagnostic blob that is absent, or whose
\* encoding query fails, or that holds a text of length 0..MaxTextLen in
\* one of the two encodings.
EngineOutcomes(src) ==
  IF Valid(src)
  THEN {[hr |-> "S_OK", status |-> "S_OK", blob |-> NoBlob,
         bytecode |-> Bytecode(src)]}
  ELSE {[hr |-> "E_FAIL", status |-> "E_FAIL", blob |-> NoBlob, bytecode |-> <<>>]}
       \cup
       {[hr |-> "S_OK", status |-> "E_FAIL", blob |-> NoBlob, bytecode |-> <<>>]}
       \cup
       {[hr |-> "S_OK", status |-> "E_FAIL",
         blob |-> [blobNull |-> FALSE, encOk |-> ok, codePage |-> cp,
                   bytes |-> EncodeText(t, cp)],
         bytecode |-> <<>>] :
          ok \in BOOLEAN, cp \in {"CP_UTF8", "CP_UTF16"}, t \in Texts}

(***************************************************************************)
(* Diagnostic text extraction.                                             *)
(***************************************************************************)

\* "Unknown error. Failed to retrieve encoding"
UnknownEncodingMessage ==
  <<85, 110, 107, 110, 111, 119, 110, 32, 101, 114, 114, 111, 114, 46,
     32, 70, 97, 105, 108, 101, 100, 32, 116, 111, 32, 114, 101, 116, 114,
     105, 101, 118, 101, 32, 101, 110, 99, 111, 100, 105, 110, 103>>

\* conv.h extract_utf8_error_message, for a non-null blob: the generic
\* message when GetEncoding fails, else std::string(bytes, len).
extract_utf8_error_message(blob) ==
  IF ~blob.encOk THEN UnknownEncodingMessage ELSE blob.bytes

\* std::string(char*): the bytes up to the first NUL.  The engine's text
\* blobs are followed by a terminator, so the read ends at the buffer's end
\* at the latest.
RECURSIVE CStr(_)
CStr(bytes) ==
  IF bytes = <<>> \/ Head(bytes) = 0 THEN <<>>
  ELSE <<Head(bytes)>> \o CStr(Tail(bytes))

\* utf16_to_utf8 (called by wrapper.h, defined outside the given sources):
\* decode 16-bit little-endian units up to the terminator, each to UTF-8.
RECURSIVE utf16_to_utf8(_)
utf16_to_utf8(bytes) ==
  IF bytes = <<>> THEN <<>>
  ELSE LET lo == Head(bytes)
           hi == IF Len(bytes) >= 2 THEN bytes[2] ELSE 0
           unit == lo + 256 * hi
           rest == IF Len(bytes) >= 2 THEN Tail(Tail(bytes)) ELSE <<>>
       IN IF unit = 0 THEN <<>> ELSE Utf8Of(unit) \o utf16_to_utf8(rest)

(***************************************************************************)
(* The include handler's life inside one compile call.                     *)
(***************************************************************************)

AddRefOf(i, c) ==
  IF i = "shim" THEN IncludeHandler_AddRef(c) ELSE DxcShimIncludeHandler_AddRef(c)

ReleaseOf(i, c) ==
  IF i = "shim" THEN IncludeHandler_Release(c) ELSE DxcShimIncludeHandler_Release(c)

RECURSIVE AddRefs(_, _, _)
AddRefs(i, c, k) == IF k = 0 THEN c ELSE AddRefs(i, AddRefOf(i, c).count, k - 1)

RECURSIVE Releases(_, _, _)
Releases(i, b, k) ==
  IF k = 0 THEN b
  ELSE LET r == ReleaseOf(i, b.count)
       IN Releases(i, [count |-> r.count,
                       deletes |-> b.deletes + (IF r.deleted THEN 1 ELSE 0)], k - 1)

NoBridge == [created |-> FALSE, count |-> 0, deletes |-> 0]

\* `new` handler (count InitialRefCount); the CComPtr that owns it takes a
\* reference; the engine takes and gives back k references during Compile;
\* the CComPtr's destructor releases its reference when compile returns
\* (returned: whether the function returns rather than traps).
BridgeLife(i, created, k, returned) ==
  IF ~created THEN NoBridge
  ELSE LET c1 == AddRefOf(i, InitialRefCount).count
           c2 == AddRefs(i, c1, k)
           b  == Releases(i, [count |-> c2, deletes |-> 0], k)
           e  == Releases(i, b, IF returned THEN 1 ELSE 0)
       IN [created |-> TRUE, count |-> e.count, deletes |-> e.deletes]

(***************************************************************************)
(* compile.                                                                *)
(***************************************************************************)

NoResult == [state |-> "none"]

\* CompilationResult / DxcShimCompilationResult.  bytecode.null: the
\* CComPtr<IDxcBlob> holds no blob; bytecode.owned: the bytes are the
\* result's own copy (std::vector) rather than a reference to the engine's blob.
SuccessResult(bytes, owned) ==
  [state |-> "live", successful |-> TRUE, error_message |-> <<>>,
   bytecode |-> [null |-> FALSE, owned |-> owned, bytes |-> bytes]]

\* shim.cpp CompilationResult::failure, after the message is extracted
ShimFailureResult(message) ==
  [state |-> "live", successful |-> FALSE, error_message |-> message,
   bytecode |-> [null |-> TRUE, owned |-> FALSE, bytes |-> <<>>]]

\* wrapper.h DxcShimCompilationResult::failure
WrapperFailureResult(message) ==
  [state |-> "live", successful |-> FALSE, error_message |-> message,
   bytecode |-> [null |-> FALSE, owned |-> TRUE, bytes |-> <<>>]]

\* A variant that drops the Compiler's engine reference when the
\* compilation is reported as failed.
dxc_shim_compile_dropsEngine(c, o, k) ==
  LET trap == \/ c.compiler = "null"
              \/ o.hr # "S_OK"
              \/ (o.status # "S_OK" /\ o.blob.blobNull)
      result ==
        IF trap THEN NoResult
        ELSE IF o.status # "S_OK"
        THEN ShimFailureResult(extract_utf8_error_message(o.blob))
        ELSE SuccessResult(o.bytecode, FALSE)
  IN [fault |-> trap, result |-> result,
      handle |-> (IF ~trap /\ o.status # "S_OK"
                  THEN [c EXCEPT !.compiler = "null"] ELSE c),
      bridge |-> BridgeLife("shim", TRUE, k, ~trap)]

\* shim.cpp dxc_shim_compile on Compiler c with the engine behaving as o
\* and taking k references on the include handler.  A call through a null
\* interface pointer reads the vtable at address 0: the process traps.
dxc_shim_compile(c, o, k) ==
  LET trap == \/ c.compiler = "null"
              \/ o.hr # "S_OK"                       \* failure(nullptr)
              \/ (o.status # "S_OK" /\ o.blob.blobNull)
      result ==
        IF trap THEN NoResult
        ELSE IF o.status # "S_OK"
        THEN ShimFailureResult(extract_utf8_error_message(o.blob))
        ELSE SuccessResult(o.bytecode, FALSE)
  IN [fault |-> trap, result |-> result, handle |-> c,
      bridge |-> BridgeLife("shim", TRUE, k, ~trap)]

\* wrapper.h DxcShimCompiler::compile.  cb: the user callback ("null" or
\* "fn"); garbage: the value the uninitialised codePage holds when
\* GetEncoding fails.  Compile's HRESULT is not looked at.
DxcShimCompiler_compile(c, cb, o, k, garbage) ==
  LET trap == \/ c.compiler = "null"
              \/ o.hr # "S_OK"                       \* dxcResult is null
              \/ (o.status # "S_OK" /\ o.blob.blobNull)
      codePage == IF o.blob.encOk THEN o.blob.codePage ELSE garbage
      message == IF codePage = "CP_UTF8" THEN CStr(o.blob.bytes)
                 ELSE utf16_to_utf8(o.blob.bytes)
      result ==
        IF trap THEN NoResult
        ELSE IF o.status # "S_OK" THEN WrapperFailureResult(message)
        ELSE SuccessResult(o.bytecode, TRUE)
  IN [fault |-> trap, result |-> result, handle |-> c,
      bridge |-> BridgeLife("wrapper", cb # "null", k, ~trap)]

ApplyCompile(r, src, cb, o, k) ==
  /\ faulted' = r.fault
  /\ comp' = r.handle
  /\ res' = IF r.fault THEN res ELSE r.result
  /\ ev' = [op |-> "compile", src |-> src, cb |-> cb, outcome |-> o, k |-> k,
            fault |-> r.fault, bridge |-> r.bridge,
            before |-> comp, failedBefore |-> cnt.failed]
  /\ cnt' = [cnt EXCEPT !.compiles = @ + 1,
                        !.failed = @ + (IF ~r.fault /\ ~r.result.successful
                                        THEN 1 ELSE 0)]
  /\ UNCHANGED <<impl, dl, loader, loaderOut, compOut>>
  /\ UNCHANGED <<refVars, concVars>>

\* compile is called with a Compiler that create returned with status Ok
\* and that has not been freed, while the Loader it came from is open.
CanCompile ==
  /\ ~faulted /\ compOut = "obj" /\ comp.state = "live"
  /\ loader.state = "live" /\ comp.gen = cnt.opens
  /\ cnt.compiles < MaxCompiles

ShimCompile ==
  /\ impl = "shim" /\ CanCompile
  /\ \E src \in Sources, k \in 0..MaxEngineRefs :
       \E o \in EngineOutcomes(src) :
         ApplyCompile(dxc_shim_compile(comp, o, k), src, "none", o, k)

WrapperCompile ==
  /\ impl = "wrapper" /\ CanCompile
  /\ \E src \in Sources, cb \in {"null", "fn"} :
     \E k \in (IF cb = "null" THEN {0} ELSE 0..MaxEngineRefs) :
     \E o \in EngineOutcomes(src) :
     \E garbage \in (IF o.blob.encOk THEN {"CP_UTF8"}
                     ELSE {"CP_UTF8", "CP_UTF16"}) :
       ApplyCompile(DxcShimCompiler_compile(comp, cb, o, k, garbage),
                    src, cb, o, k)

(***************************************************************************)
(* Compilation Result queries and free.                                    *)
(***************************************************************************)

\* shim.cpp dxc_shim_compilation_result_is_successful / wrapper.h isSuccessful
dxc_shim_compilation_result_is_successful(r) == r.successful

\* shim.cpp dxc_shim_compilation_result_get_error_message:
\* (char*) error_message.c_str(), which is never a null pointer.
dxc_shim_compilation_result_get_error_message(r) ==
  [null |-> FALSE, text |-> r.error_message]

\* wrapper.h DxcShimCompilationResult::getErrorMessage: a reference to the
\* string member (a reference has no null value)
getErrorMessage(r) == [null |-> FALSE, text |-> r.error_message]

\* shim.cpp dxc_shim_compilation_result_get_bytecode: two virtual calls
\* through result->bytecode.  With no blob the call goes through a null
\* pointer; with a blob it runs the engine's code, which is there only
\* while the library is mapped.
dxc_shim_compilation_result_get_bytecode(r, mapped) ==
  IF r.bytecode.null \/ ~mapped
  THEN [fault |-> TRUE, ptrNull |-> TRUE, size |-> 0]
  ELSE [fault |-> FALSE, ptrNull |-> FALSE, size |-> Len(r.bytecode.bytes)]

\* wrapper.h DxcShimCompilationResult::getBytecode: the owned vector
getBytecode(r) ==
  [fault |-> FALSE, ptrNull |-> (r.bytecode.bytes = <<>>),
   size |-> Len(r.bytecode.bytes)]

CanQuery == ~faulted /\ res.state = "live"

\* After dlclose the library may or may not still be mapped.
Mappings == IF dl.open THEN {TRUE} ELSE BOOLEAN

Query(e) ==
  /\ ev' = e
  /\ UNCHANGED <<impl, faulted, dl, loader, loaderOut, comp, compOut, res, cnt>>
  /\ UNCHANGED <<refVars, concVars>>

ShimIsSuccessful ==
  /\ impl = "shim" /\ CanQuery
  /\ Query([op |-> "is_successful",
            flag |-> dxc_shim_compilation_result_is_successful(res)])

WrapperIsSuccessful ==
  /\ impl = "wrapper" /\ CanQuery
  /\ Query([op |-> "is_successful",
            flag |-> dxc_shim_compilation_result_is_successful(res)])

ShimGetErrorMessage ==
  /\ impl = "shim" /\ CanQuery
  /\ Query([op |-> "get_error_message",
            msg |-> dxc_shim_compilation_result_get_error_message(res)])

WrapperGetErrorMessage ==
  /\ impl = "wrapper" /\ CanQuery
  /\ Query([op |-> "getErrorMessage", msg |-> getErrorMessage(res)])

ShimGetBytecode ==
  /\ impl = "shim" /\ CanQuery
  /\ \E mapped \in Mappings :
       LET r == dxc_shim_compilation_result_get_bytecode(res, mapped) IN
       /\ ev' = [op |-> "get_bytecode", view |-> r]
       /\ faulted' = r.fault
  /\ UNCHANGED <<impl, dl, loader, loaderOut, comp, compOut, res, cnt>>
  /\ UNCHANGED <<refVars, concVars>>

WrapperGetBytecode ==
  /\ impl = "wrapper" /\ CanQuery
  /\ Query([op |-> "get_bytecode", view |-> getBytecode(res)])

\* shim.cpp dxc_shim_compilation_result_free: delete result.  The
\* CComPtr destructor releases a held blob through the engine's code.
ShimResultFree ==
  /\ impl = "shim" /\ CanQuery
  /\ \E mapped \in Mappings :
       LET trap == ~res.bytecode.null /\ ~mapped IN
       /\ faulted' = trap
       /\ res' = [res EXCEPT !.state = "freed"]
       /\ ev' = [op |-> "free", fault |-> trap]
  /\ UNCHANGED <<impl, dl, loader, loaderOut, comp, compOut, cnt>>
  /\ UNCHANGED <<refVars, concVars>>

\* wrapper.h DxcShimCompilationResult's implicit destructor
WrapperResultDtor ==
  /\ impl = "wrapper" /\ CanQuery
  /\ res' = [res EXCEPT !.state = "freed"]
  /\ ev' = [op |-> "free", fault |-> FALSE]
  /\ UNCHANGED <<impl, faulted, dl, loader, loaderOut, comp, compOut, cnt>>
  /\ UNCHANGED <<refVars, concVars>>

InitLifeVars ==
  /\ dl = [open |-> FALSE, opened |-> FALSE, unloads |-> 0]
  /\ loader = NoLoader
  /\ loaderOut = "null"
  /\ comp = NoCompiler
  /\ compOut = "null"
  /\ res = NoResult
  /\ ev = [op |-> "none"]
  /\ cnt = [opens |-> 0, creates |-> 0, compiles |-> 0, failed |-> 0]

\* The engine passes the path as a wide string; the handler decodes it.
ShimLoadSource ==
  /\ impl = "shim" /\ CanCall
  /\ \E path \in Paths, cbRet \in CallbackReturns, createHr \in CreateBlobResults :
       ApplyLoadSource(path, cbRet, createHr,
         IncludeHandler_LoadSource(utf16_to_utf8(EncodeText(path, "CP_UTF16")),
                                   cbRet, createHr))

WrapperLoadSource ==
  /\ impl = "wrapper" /\ CanCall
  /\ \E path \in Paths, cbRet \in CallbackReturns, createHr \in CreateBlobResults :
       ApplyLoadSource(path, cbRet, createHr,
         DxcShimIncludeHandler_LoadSource(utf16_to_utf8(EncodeText(path, "CP_UTF16")),
                                          cbRet, createHr))

(***************************************************************************)
(* Several threads on one include handler.  The engine may hand the        *)
(* handler to worker threads; each thread only releases references it      *)
(* holds, and only a thread that holds a reference takes a new one (for    *)
(* itself or for the thread it hands the pointer to).                      *)
(***************************************************************************)

NThreads == 2
MaxAtomicOps == 4

Threads == 1..NThreads

\* A variant whose counter is a plain integer: the read and the write of an
\* update are separate memory operations.
CounterIsAtomic_plain(i) == FALSE

\* shim.cpp: m_refCount is only touched through __sync_add_and_fetch and
\* __sync_sub_and_fetch; wrapper.h: m_refCount is a std::atomic<ULONG>
\* updated with ++ / --.  Either way an update is one read-modify-write.
CounterIsAtomic(i) == TRUE

IdleThread ==
  [pc |-> "idle", reg |-> 0, target |-> 0, held |-> 0,
   destroy |-> FALSE, sawZero |-> FALSE, deleted |-> FALSE]

InitAtomic ==
  /\ obj = [m_refCount |-> InitialRefCount, acquires |-> 0, releases |-> 0,
            deletes |-> 0]
  /\ tstate = [t \in Threads |->
                 IF t = 1 THEN [IdleThread EXCEPT !.held = 1] ELSE IdleThread]

CanStartRef(t) ==
  /\ tstate[t].pc = "idle" /\ tstate[t].held >= 1 /\ obj.deletes = 0

\* AddRef called by thread t; the new reference goes to thread u.
ThreadAddRef(t) ==
  /\ IF CounterIsAtomic(impl)
     THEN /\ CanStartRef(t) /\ obj.acquires < MaxAtomicOps
          /\ \E u \in Threads :
               tstate' = [tstate EXCEPT ![u].held = @ + 1]
          /\ obj' = [obj EXCEPT !.m_refCount = AddRefOf(impl, @).count,
                                !.acquires = @ + 1]
     ELSE IF tstate[t].pc = "idle"
     THEN /\ CanStartRef(t) /\ obj.acquires < MaxAtomicOps
          /\ \E u \in Threads :
               tstate' = [tstate EXCEPT ![t].pc = "addW",
                                        ![t].reg = obj.m_refCount,
                                        ![t].target = u]
          /\ obj' = obj
     ELSE /\ tstate[t].pc = "addW"
          /\ obj' = [obj EXCEPT
                       !.m_refCount = AddRefOf(impl, tstate[t].reg).count,
                       !.acquires = @ + 1]
          /\ tstate' = [tstate EXCEPT ![t].pc = "idle",
                                      ![tstate[t].target].held = @ + 1]
  /\ UNCHANGED <<impl, faulted, job, dxcResult>>
  /\ UNCHANGED <<refVars, lifeVars>>

\* The counter update of Release by thread t.  The outcome of the update
\* (`refCount` in the code) is a local of the call: whether to destroy is
\* decided from it, not from a second read of the counter.
ThreadRelease(t) ==
  /\ IF CounterIsAtomic(impl)
     THEN /\ CanStartRef(t)
          /\ LET r == ReleaseOf(impl, obj.m_refCount)
             IN /\ obj' = [obj EXCEPT !.m_refCount = r.count,
                                      !.releases = @ + 1]
                /\ tstate' = [tstate EXCEPT
                                ![t].pc = "check", ![t].held = @ - 1,
                                ![t].destroy = r.deleted,
                                ![t].sawZero = (obj.m_refCount = 1 /\ r.count = 0)]
     ELSE IF tstate[t].pc = "idle"
     THEN /\ CanStartRef(t)
          /\ tstate' = [tstate EXCEPT ![t].pc = "relW",
                                      ![t].reg = obj.m_refCount,
                                      ![t].held = @ - 1]
          /\ obj' = obj
     ELSE /\ tstate[t].pc = "relW"
          /\ LET r == ReleaseOf(impl, tstate[t].reg)
             IN /\ obj' = [obj EXCEPT !.m_refCount = r.count,
                                      !.releases = @ + 1]
                /\ tstate' = [tstate EXCEPT
                                ![t].pc = "check",
                                ![t].destroy = r.deleted,
                                ![t].sawZero = (tstate[t].reg = 1 /\ r.count = 0)]
  /\ UNCHANGED <<impl, faulted, job, dxcResult>>
  /\ UNCHANGED <<refVars, lifeVars>>

\* The rest of Release: `delete this` when the update said so.
ThreadDelete(t) ==
  /\ tstate[t].pc = "check"
  /\ obj' = [obj EXCEPT !.deletes = @ + (IF tstate[t].destroy THEN 1 ELSE 0)]
  /\ tstate' = [tstate EXCEPT ![t].pc = "idle",
                              ![t].deleted = @ \/ tstate[t].destroy]
  /\ UNCHANGED <<impl, faulted, job, dxcResult>>
  /\ UNCHANGED <<refVars, lifeVars>>

(***************************************************************************)
(* Several threads compiling, each on a Compiler of its own made from the  *)
(* one Loader.                                                             *)
(***************************************************************************)

\* The engine outcomes used for concurrent calls: of EngineOutcomes, the
\* successful one, the two without a diagnostic blob, and the failures
\* whose diagnostic is one UTF-8 byte.
JobOutcomes(src) ==
  {o \in EngineOutcomes(src) :
     \/ o.blob.blobNull
     \/ (o.blob.encOk /\ o.blob.codePage = "CP_UTF8" /\ Len(o.blob.bytes) = 1)}

NoOutcome ==
  [hr |-> "none", status |-> "none", blob |-> NoBlob, bytecode |-> <<>>]

\* A variant in which the engine's result pointer is one variable shared
\* by every call.
ResultSlot_shared(t) == 1

\* `CComPtr<IDxcResult> dxcResult` is an automatic variable of the compile
\* call: every call has its own.
ResultSlot(t) == t

CompileOf(i, c, cb, o, k, garbage) ==
  IF i = "shim" THEN dxc_shim_compile(c, o, k)
  ELSE DxcShimCompiler_compile(c, cb, o, k, garbage)

NoJobResult ==
  [fault |-> FALSE, result |-> NoResult, handle |-> NoCompiler,
   bridge |-> NoBridge]

\* A thread outside compile: only its Compiler is of interest.
NoJob == [pc |-> "none", handle |-> NoCompiler]

InitJobs ==
  /\ job = [t \in Threads |-> NoJob]
  /\ dxcResult = [s \in Threads |-> NoOutcome]

InCall(t) == job[t].pc \in {"called", "compiled"}

OthersInCall(t) == \E u \in Threads \ {t} : InCall(u)

\* Thread t makes its Compiler from the Loader.
JobCreate(t) ==
  /\ ~faulted /\ loaderOut = "loader" /\ loader.state = "live"
  /\ job[t].pc = "none"
  /\ \E engOk, utilOk \in BOOLEAN :
       LET r == IF impl = "shim"
                THEN dxc_shim_create_compiler(loader.createInstance2, engOk, utilOk)
                ELSE DxcShimCompiler_ctor(loader.createInstance2, engOk, utilOk)
           h == [state |-> r.obj.state, compiler |-> r.obj.compiler,
                 utils |-> r.obj.utils, gen |-> cnt.opens]
       IN /\ faulted' = r.fault
          /\ job' = [job EXCEPT
                       ![t].handle = h,
                       ![t].pc = IF ~r.fault /\ r.status = StatusOf(impl, "none")
                                 THEN "ready" ELSE "none"]
  /\ UNCHANGED <<impl, obj, tstate, dxcResult>>
  /\ UNCHANGED <<refVars, lifeVars>>

\* compile is entered: the arguments and the source buffer are set up in
\* locals of the call.
JobBegin(t) ==
  /\ ~faulted /\ job[t].pc = "ready"
  /\ \E src \in Sources :
     \E o \in JobOutcomes(src) :
     \E garbage \in (IF o.blob.encOk THEN {"CP_UTF8"} ELSE {"CP_UTF8", "CP_UTF16"}) :
     \E cb \in (IF impl = "shim" THEN {"none"} ELSE {"null", "fn"}) :
       job' = [job EXCEPT ![t] =
                 [pc |-> "called", handle |-> job[t].handle,
                  before |-> job[t].handle, ldr |-> loader,
                  src |-> src, cb |-> cb, o |-> o, garbage |-> garbage,
                  out |-> NoJobResult, overlapped |-> OthersInCall(t)]]
  /\ UNCHANGED <<impl, faulted, obj, tstate, dxcResult>>
  /\ UNCHANGED <<refVars, lifeVars>>

\* The engine's Compile returns into dxcResult.
JobEngineCompile(t) ==
  /\ ~faulted /\ job[t].pc = "called"
  /\ dxcResult' = [dxcResult EXCEPT ![ResultSlot(t)] = job[t].o]
  /\ job' = [job EXCEPT ![t].pc = "compiled",
                        ![t].overlapped = @ \/ OthersInCall(t)]
  /\ UNCHANGED <<impl, faulted, obj, tstate>>
  /\ UNCHANGED <<refVars, lifeVars>>

\* The rest of compile: the result object is built from dxcResult, and
\* dxcResult goes out of scope.
JobReturn(t) ==
  /\ ~faulted /\ job[t].pc = "compiled"
  /\ LET r == CompileOf(impl, job[t].handle, job[t].cb,
                        dxcResult[ResultSlot(t)], 0, job[t].garbage)
     IN /\ faulted' = r.fault
        /\ job' = [job EXCEPT ![t].pc = "done", ![t].out = r,
                              ![t].handle = r.handle,
                              ![t].overlapped = @ \/ OthersInCall(t)]
  /\ dxcResult' = [dxcResult EXCEPT ![ResultSlot(t)] = NoOutcome]
  /\ UNCHANGED <<impl, obj, tstate>>
  /\ UNCHANGED <<refVars, lifeVars>>

\* The caller takes the result and frees it; the Compiler can be used again.
JobTake(t) ==
  /\ ~faulted /\ job[t].pc = "done"
  /\ job' = [job EXCEPT ![t] = [pc |-> "ready", handle |-> job[t].handle]]
  /\ UNCHANGED <<impl, faulted, obj, tstate, dxcResult>>
  /\ UNCHANGED <<refVars, lifeVars>>

InitConc == InitAtomic /\ InitJobs

InitRef ==
  /\ impl \in Impls
  /\ faulted = FALSE
  /\ InitRefVars
  /\ InitLifeVars
  /\ InitConc

NextRef ==
  \/ ShimAddRef \/ ShimRelease \/ WrapperAddRef \/ WrapperRelease
  \/ ShimQueryInterface \/ WrapperQueryInterface
  \/ ShimLoadSource \/ WrapperLoadSource

SpecRef == InitRef /\ [][NextRef]_vars

Init == InitRef

Next ==
  \/ ShimLoaderOpen \/ WrapperLoaderCtor
  \/ ShimLoaderClose \/ WrapperLoaderDtor
  \/ ShimCreateCompiler \/ WrapperCompilerCtor \/ WrapperCompilerDtor
  \/ ShimCompile \/ WrapperCompile
  \/ ShimIsSuccessful \/ WrapperIsSuccessful
  \/ ShimGetErrorMessage \/ WrapperGetErrorMessage
  \/ ShimGetBytecode \/ WrapperGetBytecode
  \/ ShimResultFree \/ WrapperResultDtor

Spec == Init /\ [][Next]_vars

NextAtomic ==
  \E t \in Threads : ThreadAddRef(t) \/ ThreadRelease(t) \/ ThreadDelete(t)

SpecAtomic == Init /\ [][NextAtomic]_vars

NextConc ==
  \/ ShimLoaderOpen \/ WrapperLoaderCtor
  \/ \E t \in Threads :
       JobCreate(t) \/ JobBegin(t) \/ JobEngineCompile(t) \/ JobReturn(t)
       \/ JobTake(t)

SpecConc == Init /\ [][NextConc]_vars


(***************************************************************************)
(* Properties.                                                             *)
(***************************************************************************)

\* C1: over every sequence of AddRef/Release calls on an include handler
\* that starts at count 1, the handler is deleted exactly once, in exactly
\* the Release that takes the count from 1 to 0: no AddRef deletes, no
\* Release that leaves the count >= 1 deletes, and a handler whose count is
\* 0 has been deleted.
C1_DestroyedExactlyAtOneToZero ==
  /\ bridge.deletes <= 1
  /\ last.op # "none" =>
       (last.deleted <=>
          (last.op = "Release" /\ last.before = 1 /\ bridge.m_refCount = 0))
  /\ bridge.m_refCount = 0 => bridge.deletes = 1

\* C2: the error-message query (the entry point whose return value can be
\* null) returns a non-null string if and only if the queried result is not
\* successful.
C2_ErrorMessageNullIffSuccessful ==
  ev.op = "get_error_message" => (ev.msg.null <=> res.successful)

\* C3: on the result of a failed compile the bytecode query completes
\* normally (no trap) and reports length zero.
C3_FailedBytecodeLengthZero ==
  (ev.op = "get_bytecode" /\ ~res.successful) =>
     (~ev.view.fault /\ ~faulted /\ ev.view.size = 0)

BytecodePopulated(r) == ~r.bytecode.null /\ r.bytecode.bytes # <<>>

ErrorTextPopulated(r) == r.error_message # <<>>

\* C4: a live Compilation Result has exactly one of bytecode and error text
\* populated, selected by the success flag: successful means bytecode
\* present and error text empty, not successful means bytecode absent or
\* empty and error text present.
C4_ExactlyOnePopulated ==
  res.state = "live" =>
     /\ res.successful => (BytecodePopulated(res) /\ ~ErrorTextPopulated(res))
     /\ ~res.successful => (~BytecodePopulated(res) /\ ErrorTextPopulated(res))

\* C5: when the engine's Compile call itself fails, compile does not trap
\* and returns a result marked not successful that carries a message.
C5_CompileHresultFailureReported ==
  (ev.op = "compile" /\ ev.outcome.hr # "S_OK") =>
     (~ev.fault /\ ~faulted /\ res.state = "live" /\ ~res.successful)

\* C6: when dlopen fails, open reports the open-library status (not Ok),
\* allocates no Loader, leaves no library handle open, and stores nothing
\* through the caller's out-parameter.
C6_OpenFailureLeavesNothing ==
  (ev.op = "open" /\ ~ev.dlopenOk) =>
     /\ ev.status = StatusOf(impl, "dlopen")
     /\ ev.status # StatusOf(impl, "none")
     /\ ~ev.allocated /\ ~ev.written
     /\ loader.state # "live"
     /\ ~dl.open /\ dl.unloads = 0
     /\ loaderOut = "null"

\* C6 witness: an open whose dlopen failed has returned.
C6_Witness == ev.op = "open" /\ ~ev.dlopenOk /\ ev.step = "dlopen"

\* C7: when dlopen succeeds and dlsym fails, open reports the
\* symbol-resolution status (not Ok) and yields no Loader; so a Loader the
\* caller holds holds a non-null createInstance2.
C7_SymbolFailureReported ==
  /\ (ev.op = "open" /\ ev.dlopenOk /\ ~ev.dlsymOk) =>
        /\ ev.status = StatusOf(impl, "dlsym")
        /\ ev.status # StatusOf(impl, "none")
        /\ ~ev.allocated /\ loaderOut = "null"
  /\ (loaderOut = "loader" /\ loader.state = "live") =>
        loader.createInstance2 # "null"

\* C8: the status a failed open or create reports is the code of the step
\* that failed and is the code of no other step, nor Ok.
C8_StatusIdentifiesStep ==
  (ev.op \in {"open", "create"} /\ ev.step # "none") =>
     /\ ev.status = StatusOf(impl, ev.step)
     /\ \A s \in Steps \ {ev.step} : ev.status # StatusOf(impl, s)

\* C9: when create fails at the engine or the utils step, the status names
\* that step, every native reference acquired has been released exactly
\* once, and the caller's out-parameter refers to no Compiler object.
C9_CreateFailureLeavesNothing ==
  (ev.op = "create" /\ ev.step \in {"compiler", "utils"}) =>
     /\ ev.status = StatusOf(impl, ev.step)
     /\ ev.status # StatusOf(impl, IF ev.step = "utils" THEN "compiler" ELSE "utils")
     /\ ev.acq.engine = ev.rel.engine /\ ev.acq.utils = ev.rel.utils
     /\ compOut = "null"

\* C10: a compile that returns a failed result leaves the Compiler as it
\* was, engine and utils still held; and a compile of a valid source
\* returns a successful result with that source's bytecode, also after
\* failed compiles on the same Compiler.
C10_FailedCompileKeepsHandle ==
  ev.op = "compile" =>
     /\ (~ev.fault /\ ~res.successful) =>
           /\ comp = ev.before
           /\ comp.state = "live"
           /\ comp.compiler = "engine" /\ comp.utils = "utils"
     /\ Valid(ev.src) =>
           /\ ~ev.fault /\ res.state = "live" /\ res.successful
           /\ res.bytecode.bytes = Bytecode(ev.src)

\* C10 witness: a valid source compiled successfully on a Compiler on
\* which an earlier compile had returned a failed result.
C10_Witness ==
  /\ ev.op = "compile" /\ Valid(ev.src) /\ ev.failedBefore > 0
  /\ ~ev.fault /\ res.successful /\ comp = ev.before

\* C11: compile constructs an include handler and hands it to the engine
\* if and only if the caller supplied a non-null callback.
C11_BridgeIffCallback ==
  ev.op = "compile" => (ev.bridge.created <=> ev.cb = "fn")

\* C12: an include handler created by a compile that returns has been
\* deleted (exactly once) by the time compile returns, the engine having
\* given back every reference it took.
C12_BridgeScopedToCall ==
  (ev.op = "compile" /\ ~ev.fault /\ ev.bridge.created) =>
     ev.bridge.deletes = 1

\* C13: a successful result owns a copy of the bytecode and holds no
\* reference to a native object, so its bytecode query and its free do not
\* trap in any later state, also after the Loader is closed.
C13_ResultOwnsBytecode ==
  /\ (res.state = "live" /\ res.successful) => res.bytecode.owned
  /\ (ev.op = "get_bytecode" /\ res.successful) =>
        (~ev.view.fault /\ ev.view.size = Len(res.bytecode.bytes))
  /\ (ev.op = "free" /\ res.successful) => ~ev.fault

\* C18: when the compilation failed and the diagnostic's encoding cannot
\* be obtained (blob absent, encoding query failed, or zero length),
\* compile returns a failed result with the generic message; when the
\* encoding query succeeds the error text is the raw bytes for CP_UTF8 and
\* the UTF-16 to UTF-8 decoding of the buffer otherwise.
C18_DiagnosticDecoding ==
  (ev.op = "compile" /\ ev.outcome.hr = "S_OK" /\ ev.outcome.status # "S_OK") =>
     LET b == ev.outcome.blob IN
     /\ ~ev.fault /\ res.state = "live" /\ ~res.successful
     /\ res.error_message =
          (IF b.blobNull \/ ~b.encOk \/ b.bytes = <<>> THEN UnknownEncodingMessage
           ELSE IF b.codePage = "CP_UTF8" THEN b.bytes
           ELSE utf16_to_utf8(b.bytes))

\* C19: a library handle is unloaded at most once; it is unloaded once by
\* close after a successful open, once inside open when dlsym fails (and
\* no Loader is left to unload it again), never when dlopen failed, and an
\* open handle always has a live Loader owning it.
C19_UnloadedExactlyOnce ==
  /\ dl.unloads <= 1
  /\ dl.open => (loader.state = "live" /\ dl.unloads = 0)
  /\ ev.op = "close" => (dl.unloads = 1 /\ ~dl.open /\ loader.state = "freed")
  /\ ev.op = "open" =>
       /\ ~ev.dlopenOk => (dl.unloads = 0 /\ ~dl.open)
       /\ (ev.dlopenOk /\ ~ev.dlsymOk) =>
             (dl.unloads = 1 /\ ~dl.open /\ loader.state # "live")
       /\ (ev.dlopenOk /\ ev.dlsymOk) => (dl.unloads = 0 /\ dl.open)

\* C15: on an include handler with count n >= 1, AddRef sets the count to
\* n+1 and returns n+1, Release sets it to n-1 and returns n-1, and Release
\* returns zero exactly in the call that deletes the object.
C15_ReturnsNewCount ==
  (last.op \in {"AddRef", "Release"} /\ last.before >= 1) =>
     /\ last.op = "AddRef" =>
          (bridge.m_refCount = last.before + 1 /\ last.ret = last.before + 1)
     /\ last.op = "Release" =>
          /\ bridge.m_refCount = last.before - 1
          /\ last.ret = last.before - 1
          /\ (last.ret = 0 <=> last.deleted)

\* C17: LoadSource invokes the user callback exactly once, with the decoded
\* path and the handler's context; it returns S_OK with a new CP_UTF8 blob
\* of the callback's text written to the output exactly when the callback
\* returned data and CreateBlob succeeded; with no data it returns E_FAIL
\* and creates no blob; when CreateBlob fails it returns that HRESULT; in
\* both failure cases the output is not written.
C17_LoadSourceContract ==
  last.op = "LoadSource" =>
     /\ last.calls = <<[path |-> EncodeText(last.path, "CP_UTF8"),
                        context |-> UserData]>>
     /\ (last.hr = "S_OK" <=> (last.cbRet # "null" /\ last.createHr = "S_OK"))
     /\ last.hr = "S_OK" =>
          /\ last.created /\ last.written
          /\ last.blob = [bytes |-> CallbackText, codePage |-> "CP_UTF8"]
     /\ last.cbRet = "null" =>
          (last.hr = "E_FAIL" /\ ~last.created /\ ~last.written)
     /\ (last.cbRet # "null" /\ last.createHr # "S_OK") =>
          (last.hr = last.createHr /\ ~last.written)

\* The number of Release calls it takes, from count c, until one deletes.
RECURSIVE ReleasesToDestroy(_, _)
ReleasesToDestroy(i, c) ==
  LET r == ReleaseOf(i, c) IN
  IF r.deleted THEN 1 ELSE 1 + ReleasesToDestroy(i, r.count)

\* C20: a QueryInterface for IUnknown or IDxcIncludeHandler returns S_OK
\* and the handler itself and raises the count by exactly one, so that one
\* more Release is needed to delete the object; for any other id it returns
\* E_NOINTERFACE with a null output and leaves the handler unchanged.
C20_QueryInterfaceEffect ==
  [][(nCalls' = nCalls + 1 /\ last'.op = "QueryInterface") =>
       IF last'.riid \in SupportedIds
       THEN /\ last'.hr = "S_OK" /\ last'.out = "this"
            /\ bridge'.m_refCount = bridge.m_refCount + 1
            /\ bridge'.deletes = bridge.deletes
            /\ ReleasesToDestroy(impl, bridge'.m_refCount)
                 = ReleasesToDestroy(impl, bridge.m_refCount) + 1
       ELSE /\ last'.hr = "E_NOINTERFACE" /\ last'.out = "null"
            /\ bridge' = bridge]_vars

\* C20 witness: a successful QueryInterface on a handler that other
\* references are held on has returned.
C20_Witness ==
  /\ last.op = "QueryInterface" /\ last.hr = "S_OK" /\ last.out = "this"
  /\ last.before >= 2 /\ bridge.m_refCount = last.before + 1

\* C14: compile calls that run at the same time on Compilers of their own
\* each return what the call alone would return for its own inputs, leave
\* their Compiler as it was, and leave the Loader as it was.
C14_ConcurrentCompilesIndependent ==
  \A t \in Threads :
    job[t].pc = "done" =>
      /\ job[t].out = CompileOf(impl, job[t].before, job[t].cb, job[t].o, 0,
                                job[t].garbage)
      /\ job[t].handle = job[t].before
      /\ loader = job[t].ldr

C14_Witness ==
  /\ ~faulted
  /\ job[1].pc = "done" /\ job[2].pc = "done"
  /\ job[1].overlapped /\ job[2].overlapped
  /\ job[1].out.result.successful /\ ~job[2].out.result.successful
  /\ job[2].out.result.error_message # <<>>

\* C16: with the references taken and released from several threads in
\* any interleaving, no counter update is lost (the count is 1 + acquires -
\* releases whenever no update is in progress), the destroy step runs at
\* most once, and only in a thread whose release took the count from one
\* to zero.
C16_AtomicRefCount ==
  /\ (\A t \in Threads : tstate[t].pc \in {"idle", "check"}) =>
       obj.m_refCount = InitialRefCount + obj.acquires - obj.releases
  /\ obj.deletes <= 1
  /\ \A t \in Threads : tstate[t].deleted => tstate[t].sawZero

C16_Witness ==
  /\ obj.deletes = 1 /\ obj.acquires >= 2 /\ obj.releases = obj.acquires + 1
  /\ tstate[2].deleted /\ ~tstate[1].deleted

====
